---- MODULE Spec2Model ----
(***************************************************************************)
(* go-ds-bbolt: a datastore (Datastore) and its transactions (txn) over a  *)
(* bbolt bucket.  The committed bucket content is `db`; every open         *)
(* transaction holds its own view of the bucket; `ret` is what the last    *)
(* call returned to its caller.                                            *)
(*                                                                         *)
(* A Go byte slice is a record [isNil, bytes]; a key (dskey.Key) is a      *)
(* record [ktype, bytes], and NoKey is the nil key of an optional field.   *)
(* A bucket is a function from the stored byte strings to their values.    *)
(***************************************************************************)
EXTENDS Integers, Sequences, FiniteSets, TLC

\* ------------------------------------------------------------- bounds
\* Most entries of a bucket the query specification starts from.
MaxEntries == 3

\* The bytes keys are made of.
Byte == {1, 2}

\* Byte strings that may be handed in as keys: the empty one, and every
\* string of one or two bytes.
KeyBytes == {<<>>} \cup {<<x>> : x \in Byte} \cup {<<x, y>> : x, y \in Byte}
\* Byte strings that may be handed in as values: the empty one and another.
Values == {<<>>, <<7>>}

\* ------------------------------------------------------------- Go values
NilSlice == [isNil |-> TRUE, bytes |-> <<>>]
Slice(b) == [isNil |-> FALSE, bytes |-> b]

KeyTypeBytes == "bytes"
KeyTypeString == "string"
NoKey == [ktype |-> "nil", bytes |-> <<>>]
NewBytesKey(b) == [ktype |-> KeyTypeBytes, bytes |-> b]
NewStrKey(b) == [ktype |-> KeyTypeString, bytes |-> b]

ErrNil == "nil"
ErrKeyTypeNotMatch == "ErrKeyTypeNotMatch"
ErrNotFound == "ErrNotFound"
\* bbolt's own errors
ErrKeyRequired == "ErrKeyRequired"
ErrTxNotWritable == "ErrTxNotWritable"
ErrTxClosed == "ErrTxClosed"
ErrCommitFailed == "ErrCommitFailed"

\* util.go copyBytes: make([]byte, len(src)) and copy; never nil.
copyBytes(src) == [isNil |-> FALSE, bytes |-> [i \in 1..Len(src.bytes) |-> src.bytes[i]]]

\* bytes.Compare: unsigned lexicographic order, -1, 0 or 1.
RECURSIVE BytesCompare(_, _)
BytesCompare(a, b) ==
    IF a = <<>> /\ b = <<>> THEN 0
    ELSE IF a = <<>> THEN -1
    ELSE IF b = <<>> THEN 1
    ELSE IF Head(a) < Head(b) THEN -1
    ELSE IF Head(a) > Head(b) THEN 1
    ELSE BytesCompare(Tail(a), Tail(b))

\* bytes.HasPrefix
BytesHasPrefix(s, prefix) ==
    /\ Len(s) >= Len(prefix)
    /\ SubSeq(s, 1, Len(prefix)) = prefix

\* bytes.Equal
BytesEqual(a, b) == a = b

\* ------------------------------------------------------------- the bucket
EmptyBucket == [k \in {} |-> <<>>]

\* bbolt Bucket.Get: nil when the key is not stored.
BucketGet(b, kb) == IF kb \in DOMAIN b THEN Slice(b[kb]) ELSE NilSlice

\* bbolt Bucket.Put refuses the empty key and stores the value otherwise.
BucketPutErr(kb) == IF Len(kb) = 0 THEN ErrKeyRequired ELSE ErrNil
BucketPut(b, kb, v) ==
    IF Len(kb) = 0 THEN b
    ELSE [x \in DOMAIN b \cup {kb} |-> IF x = kb THEN v ELSE b[x]]

\* bbolt Bucket.Delete: removes the key when it is stored, no error otherwise.
BucketDeleteErrNotFound(b, kb) == IF kb \in DOMAIN b THEN ErrNil ELSE ErrNotFound
BucketDeleteErr(b, kb) == ErrNil
BucketDelete(b, kb) == [x \in DOMAIN b \ {kb} |-> b[x]]

\* The bucket's keys in the order the cursor visits them (ascending bytes).
RECURSIVE SortedKeys(_)
SortedKeys(S) ==
    IF S = {} THEN <<>>
    ELSE LET m == CHOOSE x \in S : \A y \in S : BytesCompare(x, y) <= 0
         IN <<m>> \o SortedKeys(S \ {m})

\* bbolt Cursor.Seek: the position of the first key >= seek in the cursor's
\* order (one past the end when there is none).
CursorSeek(keys, seek) ==
    LET at == {i \in 1..Len(keys) : BytesCompare(keys[i], seek) >= 0}
    IN IF at = {} THEN Len(keys) + 1
       ELSE CHOOSE i \in at : \A j \in at : i <= j

\* ------------------------------------------------------------- queries
\* query.Query: Prefix, Range.Start, Range.End (NoKey when nil), KeysOnly.
NoQuery == [Prefix |-> NoKey, Start |-> NoKey, End |-> NoKey, KeysOnly |-> FALSE]

\* util.go toQueryEntry
toQueryEntrySizeWithValue(k, v, KeysOnly) ==
    [Key |-> NewBytesKey(copyBytes(Slice(k)).bytes),
     Value |-> IF ~KeysOnly THEN copyBytes(Slice(v)) ELSE NilSlice,
     Size |-> IF ~KeysOnly THEN Len(v) ELSE 0]
toQueryEntry(k, v, KeysOnly) ==
    [Key |-> NewBytesKey(copyBytes(Slice(k)).bytes),
     Value |-> IF ~KeysOnly THEN copyBytes(Slice(v)) ELSE NilSlice,
     Size |-> Len(v)]

\* datastore.go keyTypeMismatch
keyTypeMismatch(q, keyType) == q # NoKey /\ q.ktype # keyType

\* cursorStart after the Prefix and Range.Start blocks: max(prefix, start).
cursorStartAfterPrefix(q) == IF q.Prefix # NoKey THEN q.Prefix.bytes ELSE <<>>
cursorStartIsPrefix(q) == cursorStartAfterPrefix(q)
cursorStart(q) ==
    LET c == cursorStartAfterPrefix(q)
    IN IF q.Start # NoKey /\ BytesCompare(c, q.Start.bytes) < 0
       THEN q.Start.bytes
       ELSE c

\* checkPrefix and checkRangeEnd: set when the descriptor has the field.
checkPrefix(q) == q.Prefix # NoKey
checkRangeEndAlways(q) == TRUE
checkRangeEnd(q) == q.End # NoKey

\* The tests of one iteration of the scan loop on the visited key k.
skipsNothing(k, pref) == FALSE
skipsPrefix(k, pref) == BytesEqual(k, pref)
stopsAfterEnd(k, end) == BytesCompare(end, k) < 0
stopsAtEnd(k, end) == BytesCompare(end, k) <= 0

\* The for loop of queryWithCursor from position i on.
RECURSIVE scan(_, _, _, _)
scan(b, keys, i, q) ==
    IF i > Len(keys) THEN <<>>
    ELSE LET k == keys[i]
         IN IF checkPrefix(q) /\ ~BytesHasPrefix(k, q.Prefix.bytes) THEN <<>>
            ELSE IF checkPrefix(q) /\ skipsPrefix(k, q.Prefix.bytes)
                 THEN scan(b, keys, i + 1, q)
            ELSE IF checkRangeEnd(q) /\ stopsAtEnd(k, q.End.bytes) THEN <<>>
            ELSE <<toQueryEntry(k, b[k], q.KeysOnly)>> \o scan(b, keys, i + 1, q)

\* query.NaiveQueryApply for a descriptor without Filters, Orders, Limit and
\* Offset: the entries as scanned.
NaiveQueryApply(q, entries) == entries

\* datastore.go queryWithCursor over the cursor of bucket b.
queryWithCursor(b, q, ktype) ==
    IF \/ keyTypeMismatch(q.Prefix, ktype)
       \/ keyTypeMismatch(q.Start, ktype)
       \/ keyTypeMismatch(q.End, ktype)
    THEN [entries |-> <<>>, err |-> ErrKeyTypeNotMatch]
    ELSE IF (q.Prefix # NoKey \/ q.Start # NoKey) /\ ktype = KeyTypeString
    THEN [entries |-> <<>>, err |-> ErrKeyTypeNotMatch]
    ELSE LET keys == SortedKeys(DOMAIN b)
         IN [entries |-> NaiveQueryApply(q, scan(b, keys, CursorSeek(keys, cursorStart(q)), q)),
             err |-> ErrNil]

\* ------------------------------------------------------------- inputs
\* The only key type NewDatastore accepts.
ktype == KeyTypeBytes

\* Keys handed to Get, Has, GetSize, Put and Delete: the empty key, a key, a
\* key it is a proper prefix of, and a key of the unsupported type.
PointKeyBytes == {<<>>, <<1>>, <<1, 2>>}
PointKeys == {NewBytesKey(kb) : kb \in PointKeyBytes} \cup {NewStrKey(<<1>>)}
\* Those of them a Put can store.
StorableKeys == {NewBytesKey(kb) : kb \in PointKeyBytes \ {<<>>}}

\* Query descriptors: every combination of optional bytes keys, and the
\* descriptors that hold a key of the unsupported type.
QueryKeys == {NoKey} \cup {NewBytesKey(kb) : kb \in KeyBytes}
TypedKeys == {NoKey, NewBytesKey(<<1>>), NewStrKey(<<1>>)}
MismatchQueries ==
    {q \in [Prefix : TypedKeys, Start : TypedKeys, End : TypedKeys, KeysOnly : {FALSE}] :
        NewStrKey(<<1>>) \in {q.Prefix, q.Start, q.End}}
Queries ==
    [Prefix : QueryKeys, Start : QueryKeys, End : QueryKeys, KeysOnly : BOOLEAN]
        \cup MismatchQueries

\* The descriptors handed to Query next to the point operations: with and
\* without a prefix, a range start and a range end, and the mismatching ones.
PointQueries ==
    [Prefix : {NoKey, NewBytesKey(<<>>), NewBytesKey(<<1>>)},
     Start : {NoKey, NewBytesKey(<<1, 2>>)},
     End : {NoKey, NewBytesKey(<<1, 2>>)},
     KeysOnly : BOOLEAN]
        \cup MismatchQueries

\* Buckets the query specification starts from: no empty key (Put refuses it).
Buckets ==
    UNION {[S -> Values] : S \in {T \in SUBSET (KeyBytes \ {<<>>}) : Cardinality(T) <= MaxEntries}}

\* Transaction handles.
TxnIds == {1, 2}

\* ------------------------------------------------------------- state
VARIABLES
    db,       \* the committed content of the bucket
    txns,     \* per handle: status, the flag asked for, the bbolt tx's
              \* writable flag, its view of the bucket, and (history) the
              \* mutations that succeeded through it, the committed content
              \* when it was opened, and whether its Commit succeeded
    ret,      \* what the last call returned (and, history, the mutation log
              \* of the transaction a Commit or Discard ended, and the bbolt
              \* calls the handler made)
    lastMut   \* history: per key bytes, the most recent committed mutation

vars == <<db, txns, ret, lastMut>>

NoMut == [kind |-> "none", val |-> <<>>]
PutMut(v) == [kind |-> "put", val |-> v]
DelMut == [kind |-> "del", val |-> <<>>]
\* (history only) a Delete of a key that was not stored
DelAbsentMut == [kind |-> "delAbsent", val |-> <<>>]
LogKeys == PointKeyBytes \ {<<>>}
NoLog == [kb \in LogKeys |-> NoMut]
Record(log, kb, m) == IF kb \in LogKeys THEN [log EXCEPT ![kb] = m] ELSE log

IdleTxn == [status |-> "idle", readOnly |-> FALSE, writable |-> FALSE,
            view |-> EmptyBucket, wlog |-> NoLog, snap |-> EmptyBucket,
            committed |-> FALSE]

NoRet == [op |-> "none", txn |-> 0, key |-> NoKey, q |-> NoQuery,
          value |-> NilSlice, size |-> 0, has |-> FALSE, entries |-> <<>>,
          err |-> ErrNil, logged |-> FALSE, wlog |-> NoLog, engine |-> {}]

\* A bbolt read-write tx is open: db.Begin(true) and db.Update wait for it.
WriterOpen == \E t \in TxnIds : txns[t].status = "open" /\ txns[t].writable

\* ------------------------------------------------------------- bbolt calls
\* The calls on bbolt (db, Tx, Bucket, Cursor) each handler makes, in a set.
\* queryWithCursor reaches cursor.Seek only past its key type checks, and
\* cursor.Next (the loop's post statement) when the iteration on the key
\* the Seek found ends without a break: the key is skipped or appended.
queryWithCursorEngine(b, q, keyType) ==
    IF queryWithCursor(b, q, keyType).err # ErrNil THEN {}
    ELSE LET keys == SortedKeys(DOMAIN b)
             i == CursorSeek(keys, cursorStart(q))
             iterates ==
                 IF i > Len(keys) THEN FALSE
                 ELSE IF checkPrefix(q) /\ ~BytesHasPrefix(keys[i], q.Prefix.bytes) THEN FALSE
                 ELSE IF checkPrefix(q) /\ skipsPrefix(keys[i], q.Prefix.bytes) THEN TRUE
                 ELSE IF checkRangeEnd(q) /\ stopsAtEnd(keys[i], q.End.bytes) THEN FALSE
                 ELSE TRUE
         IN {"Cursor.Seek"} \cup (IF iterates THEN {"Cursor.Next"} ELSE {})
DatastorePutEngine(key) ==
    IF key.ktype # ktype THEN {} ELSE {"db.Update", "Tx.Bucket", "Bucket.Put"}
DatastoreDeleteEngine(key) ==
    IF key.ktype # ktype THEN {} ELSE {"db.Update", "Tx.Bucket", "Bucket.Delete"}
DatastoreGetEngine(key) ==
    IF key.ktype # ktype THEN {} ELSE {"db.View", "Tx.Bucket", "Bucket.Get"}
DatastoreQueryEngine(b, q) ==
    {"db.View", "Tx.Bucket", "Bucket.Cursor"} \cup queryWithCursorEngine(b, q, ktype)
NewTransactionEngine == {"db.Begin", "Tx.Bucket"}
txnGetEngine(key) == IF key.ktype # ktype THEN {} ELSE {"Bucket.Get"}
txnQueryEngine(b, q) == {"Bucket.Cursor"} \cup queryWithCursorEngine(b, q, ktype)
txnPutEngine(key) == IF key.ktype # ktype THEN {} ELSE {"Bucket.Put"}
txnDeleteEngine(key) == IF key.ktype # ktype THEN {} ELSE {"Bucket.Delete"}
txnCommitEngine == {"Tx.Commit"}
txnDiscardEngine == {"Tx.Rollback"}

\* ------------------------------------------------------------- Datastore
\* Datastore.Get's results for bucket content b.
DatastoreGetRetEmptyIsAbsent(b, key) ==
    IF key.ktype # ktype THEN [value |-> NilSlice, err |-> ErrKeyTypeNotMatch]
    ELSE LET data == BucketGet(b, key.bytes)
         IN IF Len(data.bytes) = 0 THEN [value |-> NilSlice, err |-> ErrNotFound]
            ELSE [value |-> copyBytes(data), err |-> ErrNil]
DatastoreGetRet(b, key) ==
    IF key.ktype # ktype THEN [value |-> NilSlice, err |-> ErrKeyTypeNotMatch]
    ELSE LET data == BucketGet(b, key.bytes)
         IN IF data.isNil THEN [value |-> NilSlice, err |-> ErrNotFound]
            ELSE [value |-> copyBytes(data), err |-> ErrNil]

\* datastore.GetBackedHas over a Get result: NotFound becomes false.
GetBackedHasKeepsNotFound(g) ==
    IF g.err = ErrNil THEN [has |-> TRUE, err |-> ErrNil] ELSE [has |-> FALSE, err |-> g.err]
GetBackedHas(g) ==
    IF g.err = ErrNil THEN [has |-> TRUE, err |-> ErrNil]
    ELSE IF g.err = ErrNotFound THEN [has |-> FALSE, err |-> ErrNil]
    ELSE [has |-> FALSE, err |-> g.err]

\* datastore.GetBackedSize over a Get result: -1 with the error.
GetBackedSize(g) ==
    IF g.err = ErrNil THEN [size |-> Len(g.value.bytes), err |-> ErrNil]
    ELSE [size |-> -1, err |-> g.err]

DatastoreHasRet(b, key) ==
    IF key.ktype # ktype THEN [has |-> FALSE, err |-> ErrKeyTypeNotMatch]
    ELSE GetBackedHas(DatastoreGetRet(b, key))

DatastoreGetSizeRet(b, key) ==
    IF key.ktype # ktype THEN [size |-> -1, err |-> ErrKeyTypeNotMatch]
    ELSE GetBackedSize(DatastoreGetRet(b, key))

\* What db.Update leaves committed after Put / Delete ran in it: the update
\* is rolled back when the function returns an error.
DatastorePutDb(b, kb, v) == IF BucketPutErr(kb) = ErrNil THEN BucketPut(b, kb, v) ELSE b
DatastoreDeleteDb(b, kb) == IF BucketDeleteErr(b, kb) = ErrNil THEN BucketDelete(b, kb) ELSE b

DatastorePut(key, v) ==
    IF key.ktype # ktype
    THEN /\ ret' = [NoRet EXCEPT !.op = "Put", !.key = key, !.err = ErrKeyTypeNotMatch,
                                 !.engine = DatastorePutEngine(key)]
         /\ UNCHANGED <<db, txns>>
    ELSE /\ ~WriterOpen
         /\ db' = DatastorePutDb(db, key.bytes, v)
         /\ ret' = [NoRet EXCEPT !.op = "Put", !.key = key, !.err = BucketPutErr(key.bytes),
                                 !.engine = DatastorePutEngine(key)]
         /\ UNCHANGED txns

DatastoreDelete(key) ==
    IF key.ktype # ktype
    THEN /\ ret' = [NoRet EXCEPT !.op = "Delete", !.key = key, !.err = ErrKeyTypeNotMatch,
                                 !.engine = DatastoreDeleteEngine(key)]
         /\ UNCHANGED <<db, txns>>
    ELSE /\ ~WriterOpen
         /\ db' = DatastoreDeleteDb(db, key.bytes)
         /\ ret' = [NoRet EXCEPT !.op = "Delete", !.key = key,
                                 !.err = BucketDeleteErr(db, key.bytes),
                                 !.engine = DatastoreDeleteEngine(key)]
         /\ UNCHANGED txns

DatastoreGet(key) ==
    /\ LET g == DatastoreGetRet(db, key)
       IN ret' = [NoRet EXCEPT !.op = "Get", !.key = key, !.value = g.value, !.err = g.err,
                               !.engine = DatastoreGetEngine(key)]
    /\ UNCHANGED <<db, txns>>

DatastoreHas(key) ==
    /\ LET h == DatastoreHasRet(db, key)
       IN ret' = [NoRet EXCEPT !.op = "Has", !.key = key, !.has = h.has, !.err = h.err,
                               !.engine = DatastoreGetEngine(key)]
    /\ UNCHANGED <<db, txns>>

DatastoreGetSize(key) ==
    /\ LET s == DatastoreGetSizeRet(db, key)
       IN ret' = [NoRet EXCEPT !.op = "GetSize", !.key = key, !.size = s.size, !.err = s.err,
                               !.engine = DatastoreGetEngine(key)]
    /\ UNCHANGED <<db, txns>>

\* Datastore.Query: queryWithCursor inside db.View.
DatastoreQuery(q) ==
    /\ LET r == queryWithCursor(db, q, ktype)
       IN ret' = [NoRet EXCEPT !.op = "Query", !.q = q, !.entries = r.entries, !.err = r.err,
                               !.engine = DatastoreQueryEngine(db, q)]
    /\ UNCHANGED <<db, txns>>

\* ------------------------------------------------------------- txn
\* NewTransaction hands its readOnly flag to db.Begin, whose parameter is
\* bbolt's `writable`.
BeginWritable(readOnly) == readOnly

NewTransaction(t, readOnly) ==
    /\ txns[t].status # "open"
    /\ BeginWritable(readOnly) => ~WriterOpen
    /\ txns' = [txns EXCEPT ![t] = [status |-> "open", readOnly |-> readOnly,
                                    writable |-> BeginWritable(readOnly),
                                    view |-> db, wlog |-> NoLog, snap |-> db,
                                    committed |-> FALSE]]
    /\ ret' = [NoRet EXCEPT !.op = "NewTransaction", !.txn = t,
                            !.engine = NewTransactionEngine]
    /\ UNCHANGED db

\* txn.Get's results: the named result `value` is what is copied.
txnGetValue(data) == copyBytes(NilSlice)
txnGetRet(view, key) ==
    IF key.ktype # ktype THEN [value |-> NilSlice, err |-> ErrKeyTypeNotMatch]
    ELSE LET data == BucketGet(view, key.bytes)
         IN IF data.isNil THEN [value |-> NilSlice, err |-> ErrNotFound]
            ELSE [value |-> txnGetValue(data), err |-> ErrNil]

txnHasRetEmptyIsAbsent(view, key) ==
    IF key.ktype # ktype THEN [has |-> FALSE, err |-> ErrKeyTypeNotMatch]
    ELSE LET data == BucketGet(view, key.bytes)
         IN IF Len(data.bytes) = 0 THEN [has |-> FALSE, err |-> ErrNil]
            ELSE [has |-> TRUE, err |-> ErrNil]
txnHasRet(view, key) ==
    IF key.ktype # ktype THEN [has |-> FALSE, err |-> ErrKeyTypeNotMatch]
    ELSE LET data == BucketGet(view, key.bytes)
         IN IF data.isNil THEN [has |-> FALSE, err |-> ErrNil]
            ELSE [has |-> TRUE, err |-> ErrNil]

txnGetSizeRet(view, key) ==
    IF key.ktype # ktype THEN [size |-> -1, err |-> ErrKeyTypeNotMatch]
    ELSE LET data == BucketGet(view, key.bytes)
         IN IF data.isNil THEN [size |-> -1, err |-> ErrNotFound]
            ELSE [size |-> Len(data.bytes), err |-> ErrNil]

txnGet(t, key) ==
    /\ txns[t].status = "open"
    /\ LET g == txnGetRet(txns[t].view, key)
       IN ret' = [NoRet EXCEPT !.op = "txn.Get", !.txn = t, !.key = key,
                               !.value = g.value, !.err = g.err,
                               !.engine = txnGetEngine(key)]
    /\ UNCHANGED <<db, txns>>

txnHas(t, key) ==
    /\ txns[t].status = "open"
    /\ LET h == txnHasRet(txns[t].view, key)
       IN ret' = [NoRet EXCEPT !.op = "txn.Has", !.txn = t, !.key = key,
                               !.has = h.has, !.err = h.err,
                               !.engine = txnGetEngine(key)]
    /\ UNCHANGED <<db, txns>>

txnGetSize(t, key) ==
    /\ txns[t].status = "open"
    /\ LET s == txnGetSizeRet(txns[t].view, key)
       IN ret' = [NoRet EXCEPT !.op = "txn.GetSize", !.txn = t, !.key = key,
                               !.size = s.size, !.err = s.err,
                               !.engine = txnGetEngine(key)]
    /\ UNCHANGED <<db, txns>>

txnQuery(t, q) ==
    /\ txns[t].status = "open"
    /\ LET r == queryWithCursor(txns[t].view, q, ktype)
       IN ret' = [NoRet EXCEPT !.op = "txn.Query", !.txn = t, !.q = q,
                               !.entries = r.entries, !.err = r.err,
                               !.engine = txnQueryEngine(txns[t].view, q)]
    /\ UNCHANGED <<db, txns>>

\* txn.Put: the error, and the view it leaves.  bbolt refuses a Put in a tx
\* that is not writable.
txnPutErr(tx, key) ==
    IF key.ktype # ktype THEN ErrKeyTypeNotMatch
    ELSE IF ~tx.writable THEN ErrTxNotWritable
    ELSE BucketPutErr(key.bytes)
txnPutView(tx, key, v) ==
    IF txnPutErr(tx, key) = ErrNil THEN BucketPut(tx.view, key.bytes, v) ELSE tx.view
\* What a txn.Put leaves committed: nothing changes before Commit.
txnPutDbWriteThrough(b, tx, key, v) ==
    IF txnPutErr(tx, key) = ErrNil THEN BucketPut(b, key.bytes, v) ELSE b
txnPutDb(b, tx, key, v) == b

txnPut(t, key, v) ==
    /\ txns[t].status = "open"
    /\ LET tx == txns[t]
           err == txnPutErr(tx, key)
       IN /\ txns' = [txns EXCEPT ![t].view = txnPutView(tx, key, v),
                                  ![t].wlog = IF err = ErrNil
                                              THEN Record(tx.wlog, key.bytes, PutMut(v))
                                              ELSE tx.wlog]
          /\ db' = txnPutDb(db, tx, key, v)
          /\ ret' = [NoRet EXCEPT !.op = "txn.Put", !.txn = t, !.key = key, !.err = err,
                                  !.engine = txnPutEngine(key)]

txnDeleteErrUnchecked(tx, key) ==
    IF ~tx.writable THEN ErrTxNotWritable ELSE BucketDeleteErr(tx.view, key.bytes)
txnDeleteErr(tx, key) ==
    IF key.ktype # ktype THEN ErrKeyTypeNotMatch
    ELSE IF ~tx.writable THEN ErrTxNotWritable
    ELSE BucketDeleteErr(tx.view, key.bytes)
txnDeleteView(tx, key) ==
    IF txnDeleteErr(tx, key) = ErrNil THEN BucketDelete(tx.view, key.bytes) ELSE tx.view

txnDelete(t, key) ==
    /\ txns[t].status = "open"
    /\ LET tx == txns[t]
           err == txnDeleteErr(tx, key)
       IN /\ txns' = [txns EXCEPT ![t].view = txnDeleteView(tx, key),
                                  ![t].wlog = IF err = ErrNil
                                              THEN Record(tx.wlog, key.bytes, DelMut)
                                              ELSE tx.wlog]
          /\ ret' = [NoRet EXCEPT !.op = "txn.Delete", !.txn = t, !.key = key, !.err = err,
                                  !.engine = txnDeleteEngine(key)]
    /\ UNCHANGED db

ClosedTxn == [IdleTxn EXCEPT !.status = "closed"]

\* tx.Commit's error: a closed tx, a tx that is not writable, or a failure
\* of the write itself (engineFails).
txnCommitErr(tx, engineFails) ==
    IF tx.status = "closed" THEN ErrTxClosed
    ELSE IF ~tx.writable THEN ErrTxNotWritable
    ELSE IF engineFails THEN ErrCommitFailed
    ELSE ErrNil
\* What tx.Commit leaves committed: the tx's view, or, when it fails (bbolt
\* rolls the tx back), what was committed before.
txnCommitDbKeepsFailed(b, tx, engineFails) ==
    IF tx.status = "open" /\ tx.writable THEN tx.view ELSE b
txnCommitDb(b, tx, engineFails) ==
    IF txnCommitErr(tx, engineFails) = ErrNil THEN tx.view ELSE b

txnCommit(t, engineFails) ==
    /\ txns[t].status # "idle"
    /\ LET tx == txns[t]
           err == txnCommitErr(tx, engineFails)
       IN /\ db' = txnCommitDb(db, tx, engineFails)
          /\ txns' = [txns EXCEPT ![t] =
                        IF err \in {ErrTxNotWritable, ErrTxClosed} THEN tx
                        ELSE [ClosedTxn EXCEPT !.committed = (err = ErrNil)]]
          /\ ret' = [NoRet EXCEPT !.op = "txn.Commit", !.txn = t, !.err = err,
                                  !.wlog = tx.wlog, !.engine = txnCommitEngine]

\* tx.Rollback's error: only a closed tx has one.
RollbackErr(tx) == IF tx.status = "closed" THEN ErrTxClosed ELSE ErrNil
\* What txn.Discard leaves committed.
txnDiscardDbCommits(b, tx) == IF tx.status = "open" /\ tx.writable THEN tx.view ELSE b
txnDiscardDb(b, tx) == b
\* txn.Discard has no result: a rollback error is printed.
txnDiscardErrSurfaces(tx) == RollbackErr(tx)
txnDiscardErr(tx) == ErrNil

txnDiscard(t) ==
    /\ txns[t].status # "idle"
    /\ LET tx == txns[t]
       IN /\ db' = txnDiscardDb(db, tx)
          /\ txns' = [txns EXCEPT ![t] = IF tx.status = "closed" THEN tx ELSE ClosedTxn]
          /\ ret' = [NoRet EXCEPT !.op = "txn.Discard", !.txn = t,
                                  !.err = txnDiscardErr(tx),
                                  !.logged = RollbackErr(tx) # ErrNil,
                                  !.wlog = tx.wlog, !.engine = txnDiscardEngine]

\* ------------------------------------------------------------- specifications
Init ==
    /\ db = EmptyBucket
    /\ txns = [t \in TxnIds |-> IdleTxn]
    /\ ret = NoRet
    /\ lastMut = NoLog

\* One call on the store or on a transaction handle of T, with a key of K.
\* (lastMut is kept by SpecStore only.)
Step(T, K) ==
    \/ \E key \in K, v \in Values : DatastorePut(key, v) /\ UNCHANGED lastMut
    \/ \E key \in K : DatastoreDelete(key) /\ UNCHANGED lastMut
    \/ \E key \in K : DatastoreGet(key) /\ UNCHANGED lastMut
    \/ \E key \in K : DatastoreHas(key) /\ UNCHANGED lastMut
    \/ \E key \in K : DatastoreGetSize(key) /\ UNCHANGED lastMut
    \/ \E t \in T, readOnly \in BOOLEAN : NewTransaction(t, readOnly) /\ UNCHANGED lastMut
    \/ \E t \in T, key \in K : txnGet(t, key) /\ UNCHANGED lastMut
    \/ \E t \in T, key \in K : txnHas(t, key) /\ UNCHANGED lastMut
    \/ \E t \in T, key \in K : txnGetSize(t, key) /\ UNCHANGED lastMut
    \/ \E t \in T, key \in K, v \in Values : txnPut(t, key, v) /\ UNCHANGED lastMut
    \/ \E t \in T, key \in K : txnDelete(t, key) /\ UNCHANGED lastMut
    \/ \E t \in T, engineFails \in BOOLEAN : txnCommit(t, engineFails) /\ UNCHANGED lastMut
    \/ \E t \in T : txnDiscard(t) /\ UNCHANGED lastMut

\* The store and two transaction handles, over the keys that can be stored.
Next == Step(TxnIds, StorableKeys)

Spec == Init /\ [][Next]_vars

\* The store and one transaction handle, over every key, the empty key and
\* the key of the unsupported type included, and with the queries.
NextOneTxn ==
    \/ Step({1}, PointKeys)
    \/ \E q \in PointQueries : DatastoreQuery(q) /\ UNCHANGED lastMut
    \/ \E q \in PointQueries : txnQuery(1, q) /\ UNCHANGED lastMut

SpecOneTxn == Init /\ [][NextOneTxn]_vars

\* Queries: the bucket is any content the Puts can build, the descriptor any
\* combination of Prefix, Range.Start, Range.End and KeysOnly.
InitQuery ==
    /\ db \in Buckets
    /\ txns = [t \in TxnIds |-> IdleTxn]
    /\ ret = NoRet
    /\ lastMut = NoLog

NextQuery == \E q \in Queries : ret = NoRet /\ DatastoreQuery(q) /\ UNCHANGED lastMut

SpecQuery == InitQuery /\ [][NextQuery]_vars

\* The store alone, with the history of each key's most recent mutation: a
\* Put or Delete that returned no error.
TrackPut(key, v) ==
    lastMut' = IF ret'.err = ErrNil THEN Record(lastMut, key.bytes, PutMut(v)) ELSE lastMut
TrackDelete(key) ==
    lastMut' = IF ret'.err = ErrNil
               THEN Record(lastMut, key.bytes,
                           IF key.bytes \in DOMAIN db THEN DelMut ELSE DelAbsentMut)
               ELSE lastMut

NextStore ==
    \/ \E key \in PointKeys, v \in Values : DatastorePut(key, v) /\ TrackPut(key, v)
    \/ \E key \in PointKeys : DatastoreDelete(key) /\ TrackDelete(key)
    \/ \E key \in PointKeys : DatastoreGet(key) /\ UNCHANGED lastMut
    \/ \E key \in PointKeys : DatastoreHas(key) /\ UNCHANGED lastMut
    \/ \E key \in PointKeys : DatastoreGetSize(key) /\ UNCHANGED lastMut

SpecStore == Init /\ [][NextStore]_vars

\* ------------------------------------------------------------- properties
\* Byte-lexicographic order and strict prefix, stated without recursion.
LexLess(a, b) ==
    \/ Len(a) < Len(b) /\ \A i \in 1..Len(a) : a[i] = b[i]
    \/ \E i \in 1..Len(a) :
          /\ i <= Len(b)
          /\ a[i] < b[i]
          /\ \A j \in 1..(i - 1) : a[j] = b[j]
LexLeq(a, b) == a = b \/ LexLess(a, b)
StartsWith(k, p) == Len(p) <= Len(k) /\ \A i \in 1..Len(p) : k[i] = p[i]
StrictPrefix(p, k) == Len(p) < Len(k) /\ StartsWith(k, p)

\* The key bytes of the entries the last Query returned.
EntryKeys == {ret.entries[i].Key.bytes : i \in 1..Len(ret.entries)}
IsBytesKey(k) == k # NoKey /\ k.ktype = KeyTypeBytes
QueryDone == ret.op = "Query" /\ ret.err = ErrNil

\* C1: a Query with a non-empty Prefix P and no Range bounds returns every
\* stored key P is a strict prefix of, never the key equal to P, and no key
\* that does not start with P.
C1_PrefixQuery ==
    (/\ QueryDone
     /\ IsBytesKey(ret.q.Prefix) /\ ret.q.Prefix.bytes # <<>>
     /\ ret.q.Start = NoKey /\ ret.q.End = NoKey)
    => LET P == ret.q.Prefix.bytes
       IN /\ \A k \in DOMAIN db : StrictPrefix(P, k) => k \in EntryKeys
          /\ P \notin EntryKeys
          /\ \A k \in EntryKeys : StartsWith(k, P)

\* C1 witness: the prefix itself, a key it strictly prefixes and a key
\* outside it are stored, and the prefix query returned exactly the second.
C1_Witness ==
    /\ QueryDone
    /\ ret.q.Prefix = NewBytesKey(<<1>>) /\ ret.q.Start = NoKey /\ ret.q.End = NoKey
    /\ DOMAIN db = {<<1>>, <<1, 2>>, <<2>>}
    /\ EntryKeys = {<<1, 2>>}

\* The stored keys a descriptor of bytes keys selects.
Selected(b, q) ==
    {k \in DOMAIN b :
        /\ q.Start # NoKey => LexLeq(q.Start.bytes, k)
        /\ q.End # NoKey => LexLess(k, q.End.bytes)
        /\ q.Prefix # NoKey => StrictPrefix(q.Prefix.bytes, k)}
LexMax(a, b) == IF LexLess(a, b) THEN b ELSE a
AllBytesKeys(q) ==
    /\ q.Prefix # NoKey => q.Prefix.ktype = KeyTypeBytes
    /\ q.Start # NoKey => q.Start.ktype = KeyTypeBytes
    /\ q.End # NoKey => q.End.ktype = KeyTypeBytes
Ascending(entries) ==
    \A i, j \in 1..Len(entries) : i < j => LexLess(entries[i].Key.bytes, entries[j].Key.bytes)

\* C3: for every optional Range.Start S, Range.End E and Prefix P, Query
\* returns exactly the stored keys k with S <= k < E that P strictly
\* prefixes, each once; the scan starts at max(P, S).
C3_RangeQuery ==
    (QueryDone /\ AllBytesKeys(ret.q))
    => /\ EntryKeys = Selected(db, ret.q)
       /\ Len(ret.entries) = Cardinality(Selected(db, ret.q))
       /\ cursorStart(ret.q) =
            LexMax(IF ret.q.Prefix # NoKey THEN ret.q.Prefix.bytes ELSE <<>>,
                   IF ret.q.Start # NoKey THEN ret.q.Start.bytes ELSE <<>>)

\* C3 witness: Prefix, Start and End are all set, Start lies above the
\* prefix, and a stored key under the prefix is cut off by each bound.
C3_Witness ==
    /\ QueryDone
    /\ ret.q.Prefix = NewBytesKey(<<1>>)
    /\ ret.q.Start = NewBytesKey(<<1, 1>>)
    /\ ret.q.End = NewBytesKey(<<1, 2>>)
    /\ DOMAIN db = {<<1>>, <<1, 1>>, <<1, 2>>}
    /\ EntryKeys = {<<1, 1>>}

\* C10: a Query with the empty Prefix and no Range bounds returns every
\* stored entry exactly once in ascending key order: what the same Query
\* without a Prefix returns.
C10_EmptyPrefix ==
    (/\ QueryDone
     /\ ret.q.Prefix = NewBytesKey(<<>>)
     /\ ret.q.Start = NoKey /\ ret.q.End = NoKey)
    => /\ EntryKeys = DOMAIN db
       /\ Len(ret.entries) = Cardinality(DOMAIN db)
       /\ Ascending(ret.entries)
       /\ \A i \in 1..Len(ret.entries) : ret.entries[i].Size = Len(db[ret.entries[i].Key.bytes])
       /\ ret.entries = queryWithCursor(db, [ret.q EXCEPT !.Prefix = NoKey], ktype).entries

\* C10 witness: three entries stored, all returned by the empty prefix.
C10_Witness ==
    /\ QueryDone
    /\ ret.q.Prefix = NewBytesKey(<<>>) /\ ret.q.Start = NoKey /\ ret.q.End = NoKey
    /\ Cardinality(DOMAIN db) = 3
    /\ Len(ret.entries) = 3

\* What the store's reads return on committed content b: Get, Has and
\* GetSize of every key, and the Query for everything.
StoreObs(b) ==
    [key \in PointKeys |-> <<DatastoreGetRet(b, key), DatastoreHasRet(b, key),
                             DatastoreGetSizeRet(b, key)>>]
StoreQueryObs(b) == queryWithCursor(b, NoQuery, ktype)
IsPointKey(key) == key.ktype = KeyTypeBytes /\ key.bytes \in LogKeys

\* C7: a key whose most recent mutation is Put(k, v): Get returns v,
\* GetSize len(v) and Has true, without error; the empty value included.
C7_GetReturnsLastPut ==
    (/\ ret.op \in {"Get", "GetSize", "Has"}
     /\ IsPointKey(ret.key)
     /\ lastMut[ret.key.bytes].kind = "put")
    => LET v == lastMut[ret.key.bytes].val
       IN /\ ret.err = ErrNil
          /\ ret.op = "Get" => ret.value = Slice(v)
          /\ ret.op = "GetSize" => ret.size = Len(v)
          /\ ret.op = "Has" => ret.has

\* C7 witness: GetSize of a key last Put with the empty value returned 0.
C7_Witness ==
    /\ ret.op = "GetSize" /\ ret.key = NewBytesKey(<<1>>)
    /\ lastMut[<<1>>] = PutMut(<<>>)
    /\ lastMut[<<1, 2>>] = PutMut(<<7>>)
    /\ ret.size = 0 /\ ret.err = ErrNil

\* C8: Has(k) is true exactly when a Put(k, _) occurred with no Delete(k)
\* after it; for an absent key Has is false without error, Get and GetSize
\* fail with NotFound.
C8_HasIffPut ==
    (ret.op \in {"Get", "GetSize", "Has"} /\ ret.key.ktype = KeyTypeBytes)
    => LET stored == IsPointKey(ret.key) /\ lastMut[ret.key.bytes].kind = "put"
       IN /\ ret.op = "Has" => ret.err = ErrNil /\ ret.has = stored
          /\ (ret.op # "Has" /\ ~stored) => ret.err = ErrNotFound

\* C8 witness: Has of a key deleted after its Put returned false, no error.
C8_Witness ==
    /\ ret.op = "Has" /\ ret.key = NewBytesKey(<<1>>)
    /\ lastMut[<<1>>] = DelMut
    /\ ~ret.has /\ ret.err = ErrNil

\* C9: a Delete returns no error, stored or not, leaves every other entry
\* as it was, and Has of the key is false after it.
C9_DeleteStep ==
    (ret'.op = "Delete" /\ ret'.key.ktype = KeyTypeBytes)
    => /\ ret'.err = ErrNil
       /\ DOMAIN db' = DOMAIN db \ {ret'.key.bytes}
       /\ \A kb \in DOMAIN db' : db'[kb] = db[kb]
       /\ DatastoreHasRet(db', ret'.key) = [has |-> FALSE, err |-> ErrNil]
C9_DeleteIdempotent == [][C9_DeleteStep]_vars

\* C9 witness: a key that was not stored was deleted while another entry is
\* stored, and the Delete returned no error.
C9_Witness ==
    /\ ret.op = "Delete" /\ ret.key = NewBytesKey(<<1>>) /\ ret.err = ErrNil
    /\ lastMut[<<1>>] = DelAbsentMut
    /\ lastMut[<<1, 2>>] = PutMut(<<7>>)
    /\ DOMAIN db = {<<1, 2>>}

\* C2 (as claimed): a Get through a transaction of a key last Put through
\* it returns the value put.
C2_TxnGetReturnsOwnPut ==
    (/\ ret.op = "txn.Get"
     /\ IsPointKey(ret.key)
     /\ txns[ret.txn].status = "open"
     /\ txns[ret.txn].wlog[ret.key.bytes].kind = "put")
    => /\ ret.err = ErrNil
       /\ ret.value.bytes = txns[ret.txn].wlog[ret.key.bytes].val

\* C4: a Put or Delete through a transaction changes nothing a store read
\* returns; a Commit that succeeds makes every one of them visible at once.
C4_Step ==
    /\ ret'.op \in {"txn.Put", "txn.Delete"}
         => StoreObs(db') = StoreObs(db) /\ StoreQueryObs(db') = StoreQueryObs(db)
    /\ (ret'.op = "txn.Commit" /\ ret'.err = ErrNil)
         => \A kb \in LogKeys :
              LET m == txns[ret'.txn].wlog[kb]
                  g == DatastoreGetRet(db', NewBytesKey(kb))
              IN /\ m.kind = "put" => g = [value |-> Slice(m.val), err |-> ErrNil]
                 /\ m.kind = "del" => g.err = ErrNotFound
                 /\ m.kind = "none" => g = DatastoreGetRet(db, NewBytesKey(kb))
C4_UncommittedInvisible == [][C4_Step]_vars

\* C4 witness: a Commit succeeded for a transaction that put one key and
\* deleted another, and the store shows both.
C4_Witness ==
    /\ ret.op = "txn.Commit" /\ ret.err = ErrNil
    /\ ret.wlog[<<1>>] = PutMut(<<7>>)
    /\ ret.wlog[<<1, 2>>] = DelMut
    /\ db = (<<1>> :> <<7>>)

\* C5: a Discard leaves the committed content as it was, ends the
\* transaction and reports nothing, also when the rollback fails.
C5_Step ==
    ret'.op = "txn.Discard"
    => /\ db' = db
       /\ StoreObs(db') = StoreObs(db)
       /\ txns'[ret'.txn].status = "closed"
       /\ txns'[ret'.txn].view = EmptyBucket
       /\ ret'.err = ErrNil
C5_DiscardDrops == [][C5_Step]_vars

\* C5 witness: a transaction that had put a key was discarded and the key
\* is not stored.
C5_Witness ==
    /\ ret.op = "txn.Discard"
    /\ ret.wlog[<<1>>] = PutMut(<<7>>)
    /\ db = EmptyBucket

\* C6: a Commit that fails returns the error and leaves the committed
\* content as it was.
C6_Step ==
    (ret'.op = "txn.Commit" /\ ret'.err # ErrNil)
    => /\ db' = db
       /\ StoreObs(db') = StoreObs(db)
       /\ ret'.err = ErrCommitFailed =>
            /\ txns[ret'.txn].status = "open" /\ txns[ret'.txn].writable
            /\ txns'[ret'.txn].status = "closed"
C6_FailedCommitDrops == [][C6_Step]_vars

\* C6 witness: the Commit of a transaction that had put a key failed in the
\* engine and the key is not stored.
C6_Witness ==
    /\ ret.op = "txn.Commit" /\ ret.err = ErrCommitFailed
    /\ ret.wlog[<<1>>] = PutMut(<<7>>)
    /\ db = EmptyBucket

\* C11 (as claimed): with a key K and a key K2 it is a proper prefix of both
\* stored, a Query with Prefix = K returns both: every stored key that
\* starts with the prefix, the key equal to the prefix included.
C11_PrefixQueryIncludesPrefix ==
    (/\ QueryDone
     /\ IsBytesKey(ret.q.Prefix) /\ ret.q.Prefix.bytes # <<>>
     /\ ret.q.Start = NoKey /\ ret.q.End = NoKey)
    => \A k \in DOMAIN db : StartsWith(k, ret.q.Prefix.bytes) => k \in EntryKeys

\* The operations that take a key, and those that take a descriptor.
KeyOps == {"Put", "Delete", "Get", "Has", "GetSize",
           "txn.Put", "txn.Delete", "txn.Get", "txn.Has", "txn.GetSize"}
QueryOps == {"Query", "txn.Query"}

\* C12: an operation given a key of another type than the store's fails with
\* ErrKeyTypeNotMatch, with no value, has = false and size = -1; a Query with
\* such a Prefix, Range.Start or Range.End fails with it and returns no
\* entries; the committed content and every transaction are left as they were.
C12_Step ==
    /\ (ret'.op \in KeyOps /\ ret'.key.ktype # ktype)
         => /\ ret'.err = ErrKeyTypeNotMatch
            /\ ret'.value = NilSlice /\ ~ret'.has
            /\ ret'.op \in {"GetSize", "txn.GetSize"} => ret'.size = -1
            /\ db' = db /\ txns' = txns
    /\ (ret'.op \in QueryOps /\ ~AllBytesKeys(ret'.q))
         => /\ ret'.err = ErrKeyTypeNotMatch
            /\ ret'.entries = <<>>
            /\ db' = db /\ txns' = txns
C12_KeyTypeMismatch == [][C12_Step]_vars

\* C12 witness: a Delete of a key of the other type, through a transaction
\* that can write and holds an entry under the same bytes, was refused.
C12_Witness ==
    /\ ret.op = "txn.Delete" /\ ret.key = NewStrKey(<<1>>)
    /\ ret.err = ErrKeyTypeNotMatch
    /\ txns[1].status = "open" /\ txns[1].writable
    /\ txns[1].view = (<<1>> :> <<7>>)

\* C13 (as claimed): an operation that fails with ErrKeyTypeNotMatch has made
\* no call on bbolt: no db.View or db.Update, no cursor, Get, Put or Delete.
C13_ValidationBeforeEngine ==
    ret.err = ErrKeyTypeNotMatch => ret.engine = {}

\* C14 (as claimed): a Put or a Delete through a transaction that was
\* created read-only fails with an error and changes neither the
\* transaction's view nor the committed content.
C14_Step ==
    (/\ ret'.op \in {"txn.Put", "txn.Delete"}
     /\ ret' # ret
     /\ txns[ret'.txn].status = "open"
     /\ txns[ret'.txn].readOnly)
    => /\ ret'.err # ErrNil
       /\ txns'[ret'.txn].view = txns[ret'.txn].view
       /\ db' = db
C14_ReadOnlyRejectsWrites == [][C14_Step]_vars

\* The results r of a read op through a transaction are those of bucket
\* content b.
Shows(b, op, r) ==
    /\ op = "txn.Get" =>
         IF r.key.bytes \in DOMAIN b
         THEN r.err = ErrNil /\ r.value.bytes = b[r.key.bytes]
         ELSE r.err = ErrNotFound
    /\ op = "txn.Has" => r.err = ErrNil /\ r.has = (r.key.bytes \in DOMAIN b)
    /\ op = "txn.GetSize" =>
         IF r.key.bytes \in DOMAIN b
         THEN r.err = ErrNil /\ r.size = Len(b[r.key.bytes])
         ELSE r.err = ErrNotFound
    /\ op = "txn.Query" =>
         /\ r.err = ErrNil
         /\ {r.entries[i].Key.bytes : i \in 1..Len(r.entries)} = Selected(b, r.q)
         /\ \A i \in 1..Len(r.entries) : r.entries[i].Size = Len(b[r.entries[i].Key.bytes])

\* C15 (as claimed): every Get, Has, GetSize and Query through a transaction
\* that was created read-only shows the content that was committed when the
\* transaction was opened.
C15_ReadOnlySnapshot ==
    (/\ ret.op \in {"txn.Get", "txn.Has", "txn.GetSize", "txn.Query"}
     /\ ret.op = "txn.Query" => AllBytesKeys(ret.q)
     /\ ret.op # "txn.Query" => ret.key.ktype = ktype
     /\ txns[ret.txn].status = "open"
     /\ txns[ret.txn].readOnly)
    => Shows(txns[ret.txn].snap, ret.op, ret)

\* The open transactions that were created read-write.
ReadWriteOpen == {t \in TxnIds : txns[t].status = "open" /\ ~txns[t].readOnly}

\* C16 (as claimed): while a transaction created read-write is open, no
\* store Put or Delete goes through and no second read-write transaction is
\* opened.
C16_Step ==
    /\ (ret' # ret /\ ret'.op \in {"Put", "Delete"} /\ ret'.key.ktype = ktype)
         => ReadWriteOpen = {}
    /\ (ret' # ret /\ ret'.op = "NewTransaction" /\ ~txns'[ret'.txn].readOnly)
         => ReadWriteOpen \ {ret'.txn} = {}
C16_SingleWriter == [][C16_Step]_vars

\* C17: Has, GetSize and Query through a transaction return what the
\* store's Has, GetSize and Query return on the transaction's view as the
\* committed content; Has is true exactly when GetSize succeeds; Query shows
\* the transaction's own uncommitted entries.
C17_TxnMatchesStore ==
    (ret.op \in {"txn.Has", "txn.GetSize", "txn.Query"} /\ txns[ret.txn].status = "open")
    => LET view == txns[ret.txn].view
       IN /\ ret.op = "txn.Has" =>
               /\ [has |-> ret.has, err |-> ret.err] = DatastoreHasRet(view, ret.key)
               /\ ret.has <=> (txnGetSizeRet(view, ret.key).err = ErrNil)
          /\ ret.op = "txn.GetSize" =>
               /\ [size |-> ret.size, err |-> ret.err] = DatastoreGetSizeRet(view, ret.key)
               /\ (ret.err = ErrNil) <=> txnHasRet(view, ret.key).has
          /\ ret.op = "txn.Query" =>
               IF AllBytesKeys(ret.q) THEN Shows(view, "txn.Query", ret)
               ELSE ret.err = ErrKeyTypeNotMatch /\ ret.entries = <<>>

\* C17 witness: a Query through a transaction returned the two entries the
\* transaction has put and not committed, one of them with the empty value.
C17_Witness ==
    /\ ret.op = "txn.Query" /\ ret.q = NoQuery /\ ret.err = ErrNil
    /\ db = EmptyBucket
    /\ txns[1].status = "open"
    /\ txns[1].view = (<<1>> :> <<>> @@ <<1, 2>> :> <<7>>)
    /\ Len(ret.entries) = 2

\* C18: every entry of a Query carries the byte length of the stored value
\* as Size, with and without KeysOnly; its Value is the stored value without
\* KeysOnly and is omitted with it; the keys returned and their order are
\* those of the same Query with the other KeysOnly.
C18_EntrySizeAndValue ==
    QueryDone
    => /\ \A i \in 1..Len(ret.entries) :
            LET e == ret.entries[i]
                v == db[e.Key.bytes]
            IN /\ e.Size = Len(v)
               /\ e.Value = IF ret.q.KeysOnly THEN NilSlice ELSE Slice(v)
       /\ LET other == queryWithCursor(db, [ret.q EXCEPT !.KeysOnly = ~ret.q.KeysOnly], ktype)
          IN /\ other.err = ErrNil
             /\ Len(other.entries) = Len(ret.entries)
             /\ \A i \in 1..Len(ret.entries) : other.entries[i].Key = ret.entries[i].Key

\* C18 witness: a KeysOnly Query returned an entry of Size 1 and no Value,
\* after an entry of the empty value.
C18_Witness ==
    /\ QueryDone /\ ret.q.KeysOnly
    /\ Len(ret.entries) = 2
    /\ ret.entries[1].Size = 0 /\ ret.entries[1].Value = NilSlice
    /\ ret.entries[2].Size = 1 /\ ret.entries[2].Value = NilSlice

\* C19: a Discard of a transaction whose Commit succeeded leaves the
\* committed content as it was, with every mutation of the transaction
\* still in it, and reports nothing: the rollback error is printed.
C19_Step ==
    /\ (/\ ret'.op = "txn.Discard"
        /\ txns[ret'.txn].status = "closed" /\ txns[ret'.txn].committed)
         => /\ db' = db
            /\ StoreObs(db') = StoreObs(db) /\ StoreQueryObs(db') = StoreQueryObs(db)
            /\ txns' = txns
            /\ ret'.err = ErrNil
            /\ ret'.logged
    /\ (/\ ret.op = "txn.Commit" /\ ret.err = ErrNil
        /\ ret'.op = "txn.Discard" /\ ret'.txn = ret.txn)
         => \A kb \in LogKeys :
              /\ ret.wlog[kb].kind = "put" => kb \in DOMAIN db' /\ db'[kb] = ret.wlog[kb].val
              /\ ret.wlog[kb].kind = "del" => kb \notin DOMAIN db'
C19_DiscardAfterCommit == [][C19_Step]_vars

\* C19 witness: a transaction whose Commit succeeded was discarded, the
\* rollback error was printed, and an entry is committed.
C19_Witness ==
    /\ ret.op = "txn.Discard" /\ ret.err = ErrNil /\ ret.logged
    /\ txns[ret.txn].status = "closed" /\ txns[ret.txn].committed
    /\ db = (<<1>> :> <<7>>)

\* C20 (as claimed): a store Put can return exactly when no transaction
\* created read-write is open: it waits while one is open and goes through
\* once every one of them has been committed or discarded.
C20_PutWaitsForReadWrite ==
    \A key \in StorableKeys :
        (ENABLED DatastorePut(key, <<7>>)) <=> (ReadWriteOpen = {})

====
